---- MODULE Spec2Model ----
(***************************************************************************)
(* A model of the two utilities of the repository:                         *)
(*   - module-face-id-sever/face_server.py: the threaded Flask face        *)
(*     server (register / verify / status over the global face_db and its  *)
(*     mirror face_db.json);                                               *)
(*   - module-motion-generation/npy_to_fbx.py: the trajectory clean-up     *)
(*     functions and the batch conversion loop.                            *)
(*                                                                         *)
(* Abstractions, stated once:                                              *)
(*   - an embedding is a short vector of integers; a cosine similarity is  *)
(*     kept exactly, as the pair (dot, |q|^2 * |d|^2), and compared without *)
(*     rounding;                                                           *)
(*   - face_db.json is a sequence of tokens, one per chunk group that      *)
(*     json.dump writes ("{", one token per item, "}"); every open file    *)
(*     object has its own buffer and its own offset;                       *)
(*   - coordinates of a trajectory are integers in units of 1/Units.       *)
(***************************************************************************)
EXTENDS Integers, Sequences, FiniteSets, TLC

VARIABLES
    face_db,     \* the global dict, as the sequence of its items in insertion order
    file,        \* the content of face_db.json (<<>>: absent or empty)
    th,          \* th[t]: the position and the locals of request thread t
    served,      \* the number of requests received since the start
    putIds,      \* history: "visitor_<token>" of every registration that reached line 155
    lastPut,     \* history: identifier -> the embedding of its latest line 155
    durable,     \* history: durable[t].db is what a start-up would have loaded when
                 \* thread t opened the file; .alone: no other thread has had it open since
    restarted,   \* history: the last crash, the registrations it interrupted, what was loaded
    tasks, rowIdx, new_index, success_count, manifest,   \* npy_to_fbx.py __main__
    data, threshold, active_len, trimmed, looped,        \* npy_to_fbx.py clean-up
    buf_len, width, height, img,                         \* process_image
    embedding, match                                     \* find_match on its own

serverVars == <<face_db, file, th, served, putIds, lastPut, durable, restarted>>
batchVars  == <<tasks, rowIdx, new_index, success_count, manifest>>
motionVars == <<data, threshold, active_len, trimmed, looped>>
imageVars  == <<buf_len, width, height, img>>
matchVars  == <<embedding, match>>
vars == <<serverVars, batchVars, motionVars, imageVars, matchVars>>
otherVars == <<batchVars, motionVars, imageVars, matchVars>>

Max(a, b) == IF a >= b THEN a ELSE b
Min(a, b) == IF a <= b THEN a ELSE b

(***************************************************************************)
(* Bounds of the model.                                                    *)
(***************************************************************************)
NThreads == 2
MaxRequests == 3

Threads == 1..NThreads

None == "None"

(***************************************************************************)
(* face_server.py: process_image                                           *)
(***************************************************************************)
TARGET_SIZE == 640

\* numpy's reshape((rows, cols, 3)) of a flat buffer of n bytes raises
\* ValueError unless n = rows * cols * 3.
ReshapeOK(n, rows, cols) == n = rows * cols * 3

\* Lines 90-96: the shape the buffer is given, or the ValueError of reshape.
DecodeShape(size, w, h) ==
    IF size # w * h * 3
    THEN LET eff_size == (size \div 3) * 3
             h_eff    == eff_size \div (w * 3)
         IN  IF ReshapeOK(eff_size, h_eff, w)
             THEN [err |-> None, h |-> h_eff, w |-> w, used |-> eff_size]
             ELSE [err |-> "ValueError", h |-> h_eff, w |-> w, used |-> eff_size]
    ELSE IF ReshapeOK(size, h, w)
         THEN [err |-> None, h |-> h, w |-> w, used |-> size]
         ELSE [err |-> "ValueError", h |-> h, w |-> w, used |-> size]

\* Lines 84-119: the shape of the returned image, or the exception raised.
\* scale = TARGET_SIZE / min(h, w) divides by zero for an image with no row;
\* int(w * scale) is taken with exact arithmetic; cv2.resize rejects an empty
\* target size.
process_image(size, w, h) ==
    LET shp == DecodeShape(size, w, h) IN
    IF shp.err # None THEN [err |-> shp.err, h |-> 0, w |-> 0, used |-> shp.used]
    ELSE IF Min(shp.h, shp.w) = 0
         THEN [err |-> "ZeroDivisionError", h |-> 0, w |-> 0, used |-> shp.used]
    ELSE LET m     == Min(shp.h, shp.w)
             new_w == (shp.w * TARGET_SIZE) \div m
             new_h == (shp.h * TARGET_SIZE) \div m
             start_x == (new_w - TARGET_SIZE) \div 2
             start_y == (new_h - TARGET_SIZE) \div 2
         IN  [err |-> None,
              h |-> Min(new_h, start_y + TARGET_SIZE) - start_y,
              w |-> Min(new_w, start_x + TARGET_SIZE) - start_x,
              used |-> shp.used]

(***************************************************************************)
(* face_server.py: inputs of a request                                     *)
(***************************************************************************)
\* The embeddings the extractor can return (never the zero vector).
Embs == {<<1, 0>>, <<0, 1>>}

\* The embeddings of the faces of a /verify.
QueryEmbs == Embs \cup {<<1, 1>>, <<-1, 0>>}

\* The "uuid" field of a /register body; NoUuid: the field is missing.
NoUuid == "<missing>"
Tokens == {"a", "visitor_a", NoUuid}

\* (decoded buffer length, width, height) of the posted image.
Images == {<<12, 2, 2>>, <<9, 2, 2>>}

\* What face_app.get(img) returns: a list of faces, each a bounding box and
\* an embedding.
Face(x1, y1, x2, y2, e) == [bbox |-> <<x1, y1, x2, y2>>, embedding |-> e]
FaceLists(embs) ==
    {<<>>}
    \cup {<<Face(0, 0, 2, 2, e)>> : e \in embs}
    \cup {<<Face(0, 0, 1, 1, <<1, 0>>), Face(0, 0, 3, 3, <<0, 1>>)>>,
          <<Face(0, 0, 2, 2, <<0, 1>>), Face(1, 1, 3, 3, <<1, 0>>)>>}

Area(f) == (f.bbox[3] - f.bbox[1]) * (f.bbox[4] - f.bbox[2])

\* Lines 153, 178: max(faces, key=area), the first face of maximal area.
LargestFace(faces) ==
    LET i == CHOOSE i \in 1..Len(faces) :
                 /\ \A j \in 1..Len(faces) : Area(faces[j]) <= Area(faces[i])
                 /\ \A j \in 1..(i - 1) : Area(faces[j]) < Area(faces[i])
    IN  faces[i]

(***************************************************************************)
(* face_server.py: the identifier of a registration                        *)
(***************************************************************************)
Prefix == "visitor_"

startswith(s, p) == Len(s) >= Len(p) /\ SubSeq(s, 1, Len(p)) = p

\* Lines 141-142.
NormalizeVid(uuid) ==
    LET vid == IF uuid = NoUuid THEN "unknown" ELSE uuid
    IN  IF ~startswith(vid, Prefix) THEN Prefix \o vid ELSE vid

(***************************************************************************)
(* face_server.py: face_db, a dict; its items in insertion order           *)
(***************************************************************************)
Keys(db) == {db[i][1] : i \in 1..Len(db)}

IndexOf(db, k) == CHOOSE i \in 1..Len(db) : db[i][1] = k

Get(db, k) == db[IndexOf(db, k)][2]

\* A list of pairs in place of the dict: every write adds an item.
DbSet_append(db, k, v) == Append(db, <<k, v>>)

\* Line 155, face_db[vid] = ...: an existing key keeps its place and takes
\* the new value, a new key goes last.
DbSet(db, k, v) ==
    IF k \in Keys(db)
    THEN [i \in 1..Len(db) |-> IF db[i][1] = k THEN <<k, v>> ELSE db[i]]
    ELSE Append(db, <<k, v>>)

(***************************************************************************)
(* face_server.py: find_match                                              *)
(***************************************************************************)
Dot(a, b) == a[1] * b[1] + a[2] * b[2]

\* Line 124: dot / (norm * norm), kept as num / sqrt(den2).
CosSim(q, d) == [num |-> Dot(q, d), den2 |-> Dot(q, q) * Dot(d, d)]

Zero == [num |-> 0, den2 |-> 1]

\* a > b for two similarities.
SimGT(a, b) ==
    IF a.num >= 0 /\ b.num >= 0 THEN a.num * a.num * b.den2 > b.num * b.num * a.den2
    ELSE IF a.num >= 0 THEN TRUE
    ELSE IF b.num >= 0 THEN FALSE
    ELSE a.num * a.num * b.den2 < b.num * b.num * a.den2

SimEQ(a, b) == ~SimGT(a, b) /\ ~SimGT(b, a)

\* Line 122.
InitBest == [id |-> None, sim |-> Zero]

\* The comparison of line 125 as sim >= best_sim.
MatchStep_ge(best, item, q) ==
    LET sim == CosSim(q, item[2])
    IN  IF ~SimGT(best.sim, sim) THEN [id |-> item[1], sim |-> sim] ELSE best

\* Lines 124-126: one turn of the loop.
MatchStep(best, item, q) ==
    LET sim == CosSim(q, item[2])
    IN  IF SimGT(sim, best.sim) THEN [id |-> item[1], sim |-> sim] ELSE best

RECURSIVE Scan(_, _, _, _)
Scan(best, db, i, q) ==
    IF i > Len(db) THEN best ELSE Scan(MatchStep(best, db[i], q), db, i + 1, q)

\* Lines 121-127, run with no other thread touching face_db.
find_match(q, db) == Scan(InitBest, db, 1, q)

\* SIMILARITY_THRESHOLD = 0.5 = ThresholdNum / ThresholdDen (line 40).
ThresholdNum == 1
ThresholdDen == 2

\* Lines 182, 185: sim > SIMILARITY_THRESHOLD.
AboveThreshold(sim) ==
    sim.num > 0
    /\ ThresholdDen * ThresholdDen * sim.num * sim.num > ThresholdNum * ThresholdNum * sim.den2

(***************************************************************************)
(* face_server.py: face_db.json                                            *)
(***************************************************************************)
LBrace == [t |-> "{"]
RBrace == [t |-> "}"]
EmptyObj == [t |-> "{}"]
Hole == [t |-> "hole"]     \* bytes never written, past a truncation
Item(k, v) == [t |-> "item", k |-> k, v |-> v]

\* write(2) of toks at offset off of a file holding f.
WriteAt(f, off, toks) ==
    LET n == Max(Len(f), off + Len(toks))
    IN  [i \in 1..n |->
            IF i > off /\ i <= off + Len(toks) THEN toks[i - off]
            ELSE IF i <= Len(f) THEN f[i] ELSE Hole]

\* json.load accepts "{}" and "{" item ... item "}".
Parsable(f) ==
    \/ f = <<EmptyObj>>
    \/ /\ Len(f) >= 2
       /\ f[1] = LBrace
       /\ f[Len(f)] = RBrace
       /\ \A i \in 2..(Len(f) - 1) : f[i].t = "item"

RECURSIVE ParseItems(_, _, _)
ParseItems(f, i, db) ==
    IF i >= Len(f) THEN db ELSE ParseItems(f, i + 1, DbSet(db, f[i].k, f[i].v))

\* Lines 57-62: the mapping a start-up loads; any error gives the empty one.
Load(f) == IF Parsable(f) /\ f # <<EmptyObj>> THEN ParseItems(f, 2, <<>>) ELSE <<>>

(***************************************************************************)
(* face_server.py: the request threads (app.run(threaded=True), line 202)  *)
(* Every action is one access to face_db or to face_db.json, with the      *)
(* thread-local computation that precedes it.                              *)
(***************************************************************************)
IdleThread ==
    [pc |-> "idle", kind |-> None, uuid |-> None, vid |-> None, emb |-> <<>>,
     it |-> 0, di_used |-> 0, buf |-> <<>>, off |-> 0, best |-> InitBest,
     scan0 |-> <<>>,     \* history: face_db when find_match started its loop
     noface |-> FALSE,   \* history: face_app.get(img) returned no face
     resp |-> <<>>]

\* A thread is free before its first request and once it has responded
\* ("done": resp is the response it sent).
Free(t) == th[t].pc \in {"idle", "done"}

\* Flask starts a thread for every request; which one is immaterial, and the
\* model hands a request to the free thread of lowest number.
Accepts(t) == Free(t) /\ \A u \in 1..(t - 1) : ~Free(u)

Respond(t, kind, r) ==
    th' = [th EXCEPT ![t] = [IdleThread EXCEPT !.pc = "done", !.kind = kind, !.resp = r]]

\* Lines 149-151, 174-176: the response to an image with no face in it.
RespondNoFace(t, kind, r) ==
    th' = [th EXCEPT ![t] = [IdleThread EXCEPT !.pc = "done", !.kind = kind, !.resp = r,
                                               !.noface = TRUE]]

NoDurable == [db |-> <<>>, alone |-> FALSE]

\* The threads that hold face_db.json open for writing.
Writers == {t \in Threads : th[t].pc \in {"r_dump", "r_iter", "r_close", "r_raise"}}

\* register with line 155 run before the faces are looked at: an image with
\* no face stores an empty embedding.
RegisterRecv_put(t) ==
    /\ Accepts(t)
    /\ served < MaxRequests
    /\ served' = served + 1
    /\ \E uuid \in Tokens, im \in Images, faces \in FaceLists(Embs) :
          LET p == process_image(im[1], im[2], im[3]) IN
          IF p.err # None
          THEN /\ Respond(t, "register", [code |-> 500, status |-> "failed", error |-> p.err])
               /\ UNCHANGED face_db
          ELSE IF faces = <<>>
          THEN /\ RespondNoFace(t, "register",
                                [code |-> 200, status |-> "failed", error |-> "No face"])
               /\ face_db' = DbSet(face_db, NormalizeVid(uuid), <<>>)
          ELSE /\ th' = [th EXCEPT ![t] =
                            [IdleThread EXCEPT !.pc = "r_put", !.kind = "register",
                                               !.uuid = uuid,
                                               !.vid = NormalizeVid(uuid),
                                               !.emb = LargestFace(faces).embedding]]
               /\ UNCHANGED face_db
    /\ UNCHANGED <<file, putIds, lastPut, durable, restarted>>
    /\ UNCHANGED otherVars

\* Lines 136-153: the body is read, the image processed, the identifier
\* normalised, the faces extracted.
RegisterRecv(t) ==
    /\ Accepts(t)
    /\ served < MaxRequests
    /\ served' = served + 1
    /\ \E uuid \in Tokens, im \in Images, faces \in FaceLists(Embs) :
          LET p == process_image(im[1], im[2], im[3]) IN
          IF p.err # None
          THEN Respond(t, "register", [code |-> 500, status |-> "failed", error |-> p.err])
          ELSE IF faces = <<>>
          THEN RespondNoFace(t, "register",
                             [code |-> 200, status |-> "failed", error |-> "No face"])
          ELSE th' = [th EXCEPT ![t] =
                         [IdleThread EXCEPT !.pc = "r_put", !.kind = "register",
                                            !.uuid = uuid,
                                            !.vid = NormalizeVid(uuid),
                                            !.emb = LargestFace(faces).embedding]]
    /\ UNCHANGED <<face_db, file, putIds, lastPut, durable, restarted>>
    /\ UNCHANGED otherVars

\* The identifier a visitor token stands for: the token itself when it already
\* reads visitor_<...>, else visitor_<token>; "unknown" is the token of a body
\* with no uuid.
VisitorOf(uuid) ==
    LET tok == IF uuid = NoUuid THEN "unknown" ELSE uuid
    IN  IF \E rest \in {SubSeq(tok, i, Len(tok)) : i \in 1..(Len(tok) + 1)} : tok = Prefix \o rest
        THEN tok
        ELSE Prefix \o tok

\* Line 155.
RegisterPut(t) ==
    /\ th[t].pc = "r_put"
    /\ face_db' = DbSet(face_db, th[t].vid, th[t].emb)
    /\ th' = [th EXCEPT ![t].pc = "r_open", ![t].uuid = None]
    /\ putIds' = putIds \cup {VisitorOf(th[t].uuid)}
    /\ lastPut' = [k \in DOMAIN lastPut \cup {th[t].vid} |->
                      IF k = th[t].vid THEN th[t].emb ELSE lastPut[k]]
    /\ UNCHANGED <<file, served, durable, restarted>>
    /\ UNCHANGED otherVars

\* Line 156, open(DB_PATH, "w"): the file is truncated.
RegisterOpen(t) ==
    /\ th[t].pc = "r_open"
    /\ file' = <<>>
    /\ th' = [th EXCEPT ![t].pc = "r_dump", ![t].off = 0, ![t].buf = <<>>]
    /\ durable' = [u \in Threads |->
                      IF u = t THEN [db |-> Load(file), alone |-> Writers = {}]
                      ELSE [durable[u] EXCEPT !.alone = FALSE]]
    /\ UNCHANGED <<face_db, served, putIds, lastPut, restarted>>
    /\ UNCHANGED otherVars

\* fp.write(chunk) of a buffered file object: the chunk joins the buffer,
\* and when the buffer is full its first n tokens are written out at the
\* offset of the file object (n = 0: the chunk fitted).
Write(t, next, chunk) ==
    \E n \in 0..(Len(th[t].buf) + 1) :
        LET buf == Append(th[t].buf, chunk) IN
        /\ file' = IF n = 0 THEN file ELSE WriteAt(file, th[t].off, SubSeq(buf, 1, n))
        /\ th' = [th EXCEPT ![t] = [next EXCEPT !.off = th[t].off + n,
                                                !.buf = SubSeq(buf, n + 1, Len(buf))]]

\* Line 156, json.dump: "{}" for an empty dict, else "{" and the iterator
\* over face_db.items(), which remembers the size of the dict.
DumpStart(t) ==
    /\ th[t].pc = "r_dump"
    /\ IF face_db = <<>>
       THEN Write(t, [th[t] EXCEPT !.pc = "r_close"], EmptyObj)
       ELSE Write(t, [th[t] EXCEPT !.pc = "r_iter", !.di_used = Len(face_db), !.it = 0],
                  LBrace)
    /\ UNCHANGED <<face_db, served, putIds, lastPut, durable, restarted>>
    /\ UNCHANGED otherVars

\* Line 156, json.dump: one turn of the loop over the live dict. The
\* iterator raises RuntimeError when the dict has changed size.
DumpNext(t) ==
    /\ th[t].pc = "r_iter"
    /\ IF Len(face_db) # th[t].di_used
       THEN th' = [th EXCEPT ![t].pc = "r_raise"] /\ UNCHANGED file
       ELSE IF th[t].it < th[t].di_used
       THEN Write(t, [th[t] EXCEPT !.it = @ + 1],
                  Item(face_db[th[t].it + 1][1], face_db[th[t].it + 1][2]))
       ELSE Write(t, [th[t] EXCEPT !.pc = "r_close"], RBrace)
    /\ UNCHANGED <<face_db, served, putIds, lastPut, durable, restarted>>
    /\ UNCHANGED otherVars

\* Lines 156-159: the with block closes the file; the response is "success".
RegisterClose(t) ==
    /\ th[t].pc = "r_close"
    /\ file' = WriteAt(file, th[t].off, th[t].buf)
    /\ th' = [th EXCEPT ![t] =
                 [IdleThread EXCEPT !.pc = "done", !.kind = "register", !.vid = th[t].vid,
                     !.resp = [code |-> 200, status |-> "success", visitor_id |-> th[t].vid]]]
    /\ durable' = [durable EXCEPT ![t] = NoDurable]
    /\ UNCHANGED <<face_db, served, putIds, lastPut, restarted>>
    /\ UNCHANGED otherVars

\* Lines 156, 161-163: the exception leaves the with block, which closes the
\* file, and is answered with 500.
RegisterRaise(t) ==
    /\ th[t].pc = "r_raise"
    /\ file' = WriteAt(file, th[t].off, th[t].buf)
    /\ th' = [th EXCEPT ![t] =
                 [IdleThread EXCEPT !.pc = "done", !.kind = "register", !.vid = th[t].vid,
                     !.resp = [code |-> 500, status |-> "failed", error |-> "RuntimeError"]]]
    /\ durable' = [durable EXCEPT ![t] = NoDurable]
    /\ UNCHANGED <<face_db, served, putIds, lastPut, restarted>>
    /\ UNCHANGED otherVars

\* Lines 168-179 and 122-123: the image is processed, the faces extracted,
\* and find_match starts its loop over face_db.items().
VerifyRecv(t) ==
    /\ Accepts(t)
    /\ served < MaxRequests
    /\ served' = served + 1
    /\ \E im \in Images, faces \in FaceLists(QueryEmbs) :
          LET p == process_image(im[1], im[2], im[3]) IN
          IF p.err # None
          THEN Respond(t, "verify", [code |-> 500, error |-> p.err])
          ELSE IF faces = <<>>
          THEN RespondNoFace(t, "verify",
                             [code |-> 200, is_registered |-> FALSE, error |-> "No face"])
          ELSE th' = [th EXCEPT ![t] =
                         [IdleThread EXCEPT !.pc = "v_iter", !.kind = "verify",
                                            !.emb = LargestFace(faces).embedding,
                                            !.best = InitBest, !.scan0 = face_db,
                                            !.di_used = Len(face_db), !.it = 0]]
    /\ UNCHANGED <<face_db, file, putIds, lastPut, durable, restarted>>
    /\ UNCHANGED otherVars

\* Lines 185-190.
VerifyResponse(best) ==
    IF AboveThreshold(best.sim)
    THEN [code |-> 200, visitor_id |-> best.id, is_registered |-> TRUE, similarity |-> best.sim]
    ELSE [code |-> 200, visitor_id |-> "", is_registered |-> FALSE, similarity |-> best.sim]

\* Lines 123-127 and 182-194: one turn of find_match's loop over the live
\* dict, then the response.
VerifyNext(t) ==
    /\ th[t].pc = "v_iter"
    /\ IF Len(face_db) # th[t].di_used
       THEN Respond(t, "verify", [code |-> 500, error |-> "RuntimeError"])
       ELSE IF th[t].it < th[t].di_used
       THEN th' = [th EXCEPT ![t].it = @ + 1,
                             ![t].best = MatchStep(@, face_db[th[t].it + 1], th[t].emb)]
       ELSE Respond(t, "verify", VerifyResponse(th[t].best))
    /\ UNCHANGED <<face_db, file, served, putIds, lastPut, durable, restarted>>
    /\ UNCHANGED otherVars

\* Lines 196-198.
Status(t) ==
    /\ Accepts(t)
    /\ served < MaxRequests
    /\ served' = served + 1
    /\ Respond(t, "status", [code |-> 200, visitors |-> Len(face_db),
                             threshold |-> <<ThresholdNum, ThresholdDen>>])
    /\ UNCHANGED <<face_db, file, putIds, lastPut, durable, restarted>>
    /\ UNCHANGED otherVars

\* The process dies (buffers are lost with it) and is started again: lines
\* 57-62 load face_db.json.
Crash ==
    /\ restarted' = [crashed |-> TRUE,
                     inflight |-> {[vid |-> th[t].vid, emb |-> th[t].emb,
                                    before |-> durable[t]] : t \in Writers},
                     loaded |-> Load(file)]
    /\ face_db' = Load(file)
    /\ th' = [t \in Threads |-> IdleThread]
    /\ putIds' = Keys(Load(file))
    /\ lastPut' = [k \in Keys(Load(file)) |-> Get(Load(file), k)]
    /\ durable' = [t \in Threads |-> NoDurable]
    /\ UNCHANGED <<file, served>>
    /\ UNCHANGED otherVars

ServerInit ==
    /\ face_db = <<>>
    /\ file = <<>>
    /\ th = [t \in Threads |-> IdleThread]
    /\ served = 0
    /\ putIds = {}
    /\ lastPut = <<>>
    /\ durable = [t \in Threads |-> NoDurable]
    /\ restarted = [crashed |-> FALSE, inflight |-> {}, loaded |-> <<>>]

BatchIdle ==
    /\ tasks = <<>> /\ rowIdx = 0 /\ new_index = 0 /\ success_count = 0 /\ manifest = <<>>

MotionIdle ==
    /\ data = <<>> /\ threshold = 0 /\ active_len = 0 /\ trimmed = <<>> /\ looped = <<>>

ImageIdle ==
    /\ buf_len = 0 /\ width = 0 /\ height = 0 /\ img = <<>>

MatchIdle ==
    /\ embedding = <<>> /\ match = <<>>

Init == ServerInit /\ BatchIdle /\ MotionIdle /\ ImageIdle /\ MatchIdle

Next ==
    \E t \in Threads :
        \/ RegisterRecv(t)
        \/ RegisterPut(t)
        \/ RegisterOpen(t)
        \/ DumpStart(t)
        \/ DumpNext(t)
        \/ RegisterClose(t)
        \/ RegisterRaise(t)
        \/ VerifyRecv(t)
        \/ VerifyNext(t)
        \/ Status(t)

\* The server, never killed.
Spec == Init /\ [][Next]_vars

NextCrash ==
    \/ Next
    \/ Crash

\* The server, killed and restarted at any moment.
SpecCrash == Init /\ [][NextCrash]_vars

(***************************************************************************)
(* Properties of the face server                                           *)
(***************************************************************************)
Quiescent == \A t \in Threads : Free(t)

RegisteredOK(t) ==
    th[t].pc = "done" /\ th[t].kind = "register" /\ th[t].resp.status = "success"

\* C1: once every request has completed, every identifier whose registration
\* answered "success" is in face_db with the embedding last written for it,
\* and face_db.json holds exactly the mapping face_db holds.
C1_NoLostUpdate ==
    Quiescent =>
        /\ \A t \in Threads :
              RegisteredOK(t) =>
                  /\ th[t].vid \in Keys(face_db)
                  /\ Get(face_db, th[t].vid) = lastPut[th[t].vid]
        /\ Load(file) = face_db

\* C2: while find_match scans face_db no registration writes to it (the dict
\* is the one the scan started on), and no /verify fails because the dict
\* changed during its scan.
C2_ScanNotInterleaved ==
    \A t \in Threads :
        /\ th[t].pc = "v_iter" => face_db = th[t].scan0
        /\ ~(/\ th[t].pc = "done"
             /\ th[t].kind = "verify"
             /\ th[t].resp.code = 500
             /\ th[t].resp.error = "RuntimeError")

\* C3: after a crash during the rewrite of face_db.json by a registration
\* (the only thread writing the file), the mapping loaded at the restart has
\* every identifier that was durable when that registration opened the file,
\* each with its durable embedding or, for the identifier being registered,
\* the new one.
C3_CrashKeepsDurable ==
    restarted.crashed =>
        \A w \in restarted.inflight :
            (Cardinality(restarted.inflight) = 1 /\ w.before.alone) =>
                \A k \in Keys(w.before.db) :
                    /\ k \in Keys(restarted.loaded)
                    /\ \/ Get(restarted.loaded, k) = Get(w.before.db, k)
                       \/ k = w.vid /\ Get(restarted.loaded, k) = w.emb

\* C4: face_db holds exactly one entry for every registered identifier
\* (visitor_<token>, or the token when it is already prefixed), the entry's
\* value is the embedding of the latest registration of that identifier, and
\* so a re-registration leaves the size of the store unchanged.
C4_UniqueLastWriteWins ==
    /\ \A i, j \in 1..Len(face_db) : face_db[i][1] = face_db[j][1] => i = j
    /\ Keys(face_db) = putIds
    /\ Len(face_db) = Cardinality(putIds)
    /\ \A i \in 1..Len(face_db) : face_db[i][2] = lastPut[face_db[i][1]]

\* Two registrations of the same identifier have both succeeded, with
\* another identifier in the store as well.
C4_Witness ==
    /\ RegisteredOK(1) /\ RegisteredOK(2)
    /\ th[1].vid = "visitor_a" /\ th[2].vid = "visitor_a"
    /\ served = 3
    /\ Len(face_db) = 2

\* The thread that takes the step: the one handed the request when a request
\* is received, else the one whose position or locals change.
Actor(t) == IF served' # served THEN Accepts(t) ELSE th'[t] # th[t]

StoreUnchanged == face_db' = face_db /\ file' = file

\* The step of thread t answers a request whose image had no face.
NoFaceStep(t) == Actor(t) /\ th'[t].noface

NoFaceHandled ==
    \A t \in Threads :
        /\ NoFaceStep(t) =>
              /\ StoreUnchanged
              /\ th'[t].pc = "done"
              /\ th'[t].kind \in {"register", "verify"}
              /\ th'[t].resp.code = 200
              /\ th'[t].resp.error = "No face"
              /\ th'[t].kind = "register" => th'[t].resp.status = "failed"
              /\ th'[t].kind = "verify" => th'[t].resp.is_registered = FALSE
        /\ (Actor(t) /\ th'[t].kind \in {"verify", "status"}) => StoreUnchanged

\* After a request with no face the server takes the next request (while the
\* requests of the model are not used up).
StillServing ==
    (served < MaxRequests /\ \E t \in Threads : th[t].pc = "done" /\ th[t].noface) =>
        ENABLED (\E u \in Threads : RegisterRecv(u) \/ VerifyRecv(u) \/ Status(u))

\* C11: a /register or /verify whose image has no face is answered with a
\* structured failure (200, "No face"), not with an exception, and its step
\* changes neither face_db nor face_db.json; the server then takes the next
\* request; no step of a /verify or of a /status changes face_db or
\* face_db.json, whatever its outcome.
C11_NoFaceLeavesStore == [][NoFaceHandled]_vars /\ []StillServing

\* While a registration was under way a /register with no face was answered;
\* the registration then completed and a later /status counts one visitor,
\* the one face_db.json holds.
C11_Witness ==
    /\ th[2].pc = "done" /\ th[2].kind = "register" /\ th[2].noface
    /\ th[2].resp = [code |-> 200, status |-> "failed", error |-> "No face"]
    /\ th[1].pc = "done" /\ th[1].kind = "status" /\ th[1].resp.visitors = 1
    /\ served = 3
    /\ Len(face_db) = 1
    /\ Load(file) = face_db

(***************************************************************************)
(* npy_to_fbx.py: the batch conversion loop                                *)
(***************************************************************************)
MaxRows == 3

\* What lies at INPUT_DIR/<original_id>.npy: nothing, a file np.load cannot
\* read, or an array of the given shape; rig: whether the Blender steps
\* (armature, bake, FBX export) run through.
NoFile == [exists |-> FALSE, readable |-> FALSE, ndim |-> 0, dims |-> 0, joints |-> 0, rig |-> FALSE]
Array2(dims, rig) ==
    [exists |-> TRUE, readable |-> TRUE, ndim |-> 2, dims |-> dims, joints |-> 0, rig |-> rig]
Array3(joints, rig) ==
    [exists |-> TRUE, readable |-> TRUE, ndim |-> 3, dims |-> 0, joints |-> joints, rig |-> rig]
Unreadable == [NoFile EXCEPT !.exists = TRUE]

N_JOINTS == 22
REJECTED_DIMS == 263

\* Lines 87-211: whether convert_single_file returns True.
convert_single_file(src) ==
    IF ~src.readable THEN FALSE
    ELSE LET n_joints ==
                 IF src.ndim = 2
                 THEN IF src.dims = REJECTED_DIMS THEN -1
                      ELSE IF src.dims % 3 = 0 THEN src.dims \div 3 ELSE -1
                 ELSE IF src.ndim = 3 THEN src.joints ELSE -1
         IN  IF n_joints = -1 THEN FALSE
             ELSE IF n_joints # N_JOINTS /\ ~(n_joints > N_JOINTS) THEN FALSE
             ELSE src.rig

\* The rows of the input manifest.
Row(id, prompt, src) ==
    [original_id |-> id, prompt |-> prompt, duration_sec |-> "1.5", src |-> src]
RowPool ==
    {Row("000001", "a person walks", Array3(22, TRUE)),
     Row(" 000002 ", "a person runs", Array2(66, TRUE)),
     Row("000003", "a person jumps", NoFile),
     Row("000004", "a person sits", Array2(263, TRUE)),
     Row("000005", "a person waves", Array3(24, FALSE)),
     Row("M000006", "a person turns", Array3(21, TRUE)),
     Row("000007", "a person bows", Unreadable)}

RECURSIVE SeqsUpTo(_, _)
SeqsUpTo(S, n) ==
    IF n = 0 THEN {<<>>}
    ELSE LET shorter == SeqsUpTo(S, n - 1)
         IN  shorter \cup {Append(q, x) : q \in {r \in shorter : Len(r) = n - 1}, x \in S}

\* str.strip() for blanks.
RECURSIVE strip(_)
strip(str) ==
    IF Len(str) = 0 THEN str
    ELSE IF SubSeq(str, 1, 1) = " " THEN strip(SubSeq(str, 2, Len(str)))
    ELSE IF SubSeq(str, Len(str), Len(str)) = " " THEN strip(SubSeq(str, 1, Len(str) - 1))
    ELSE str

\* f"{n:04d}" for n >= 0.
RECURSIVE ZeroPad(_, _)
ZeroPad(str, w) == IF Len(str) >= w THEN str ELSE ZeroPad("0" \o str, w)

Format04d(n) == ZeroPad(ToString(n), 4)

\* Line 279 counted for a failed conversion as well.
IndexAfter_always(idx, is_success) == idx + 1

\* Lines 263, 279-283: the index after a conversion.
IndexAfter(idx, is_success) == IF is_success THEN idx + 1 ELSE idx

BatchInit ==
    /\ tasks \in SeqsUpTo(RowPool, MaxRows)
    /\ rowIdx = 1
    /\ new_index = 1
    /\ success_count = 0
    /\ manifest = <<>>

\* Lines 245-253: the source file does not exist; the row is skipped.
SkipMissing ==
    /\ rowIdx <= Len(tasks)
    /\ ~tasks[rowIdx].src.exists
    /\ rowIdx' = rowIdx + 1
    /\ UNCHANGED <<tasks, new_index, success_count, manifest>>
    /\ UNCHANGED <<serverVars, motionVars, imageVars, matchVars>>

\* Lines 245-287: the source file exists and is converted.
ConvertRow ==
    /\ rowIdx <= Len(tasks)
    /\ tasks[rowIdx].src.exists
    /\ LET row == tasks[rowIdx]
           original_id == strip(row.original_id)
           clip_name == Format04d(new_index)
           fbx_filename == clip_name \o ".fbx"
           is_success == convert_single_file(row.src)
       IN  /\ manifest' =
                 IF is_success
                 THEN Append(manifest, [index |-> new_index, prompt |-> row.prompt,
                                        original_id |-> original_id,
                                        duration_sec |-> row.duration_sec,
                                        fbx_filename |-> fbx_filename])
                 ELSE manifest
           /\ new_index' = IndexAfter(new_index, is_success)
           /\ success_count' = IF is_success THEN success_count + 1 ELSE success_count
    /\ rowIdx' = rowIdx + 1
    /\ UNCHANGED tasks
    /\ UNCHANGED <<serverVars, motionVars, imageVars, matchVars>>

ServerIdle ==
    /\ face_db = <<>>
    /\ file = <<>>
    /\ th = <<>>
    /\ served = 0
    /\ putIds = {}
    /\ lastPut = <<>>
    /\ durable = <<>>
    /\ restarted = <<>>

InitBatch == BatchInit /\ ServerIdle /\ MotionIdle /\ ImageIdle /\ MatchIdle

NextBatch ==
    \/ SkipMissing
    \/ ConvertRow

\* The batch driver over every input manifest of at most MaxRows rows.
SpecBatch == InitBatch /\ [][NextBatch]_vars

\* The decimal digits of a file name, read back as a number.
DigitOf(ch) == CHOOSE d \in 0..9 : ToString(d) = ch

RECURSIVE ReadNumber(_)
ReadNumber(str) ==
    IF Len(str) = 0 THEN 0
    ELSE 10 * ReadNumber(SubSeq(str, 1, Len(str) - 1)) + DigitOf(SubSeq(str, Len(str), Len(str)))

\* The rows already gone through whose conversion succeeded, in input order.
Converted ==
    SelectSeq(SubSeq(tasks, 1, rowIdx - 1),
              LAMBDA row : row.src.exists /\ convert_single_file(row.src))

\* C6: the output manifest holds exactly the converted rows, in input order,
\* numbered 1, 2, ..., k; each fbx_filename is the row's own index on four
\* digits and ".fbx"; a missing or failed row takes no index and the loop
\* goes on to the last row.
C6_ManifestSequential ==
    /\ Len(manifest) = Len(Converted)
    /\ new_index = Len(manifest) + 1
    /\ \A i \in 1..Len(manifest) :
          /\ manifest[i].index = i
          /\ manifest[i].original_id = strip(Converted[i].original_id)
          /\ manifest[i].prompt = Converted[i].prompt
          /\ manifest[i].duration_sec = Converted[i].duration_sec
          /\ Len(manifest[i].fbx_filename) = 8
          /\ SubSeq(manifest[i].fbx_filename, 5, 8) = ".fbx"
          /\ ReadNumber(SubSeq(manifest[i].fbx_filename, 1, 4)) = i
    /\ rowIdx <= Len(tasks) => ENABLED NextBatch

\* Three rows, the second with no source file, have given rows 1 and 2.
C6_Witness ==
    /\ Len(tasks) = 3
    /\ rowIdx = 4
    /\ ~tasks[2].src.exists
    /\ Len(manifest) = 2
    /\ manifest[2].index = 2
    /\ manifest[2].fbx_filename = "0002.fbx"
    /\ manifest[2].original_id = strip(tasks[3].original_id)

(***************************************************************************)
(* npy_to_fbx.py: trajectories. A frame is the sequence of its joints, a   *)
(* joint <<x, y, z>> in units of 1/Units metre.                            *)
(***************************************************************************)
Units == 100

MaxFrames == 12

RECURSIVE ISqrtFrom(_, _)
ISqrtFrom(n, r) == IF (r + 1) * (r + 1) > n THEN r ELSE ISqrtFrom(n, r + 1)

\* The integer part of the square root.
ISqrt(n) == ISqrtFrom(n, 0)

Sub(a, b) == <<a[1] - b[1], a[2] - b[2], a[3] - b[3]>>

SqNorm(v) == v[1] * v[1] + v[2] * v[2] + v[3] * v[3]

\* np.linalg.norm of one joint's displacement, in units; the poses of the
\* trimming model move joints by whole numbers of units along one axis, so
\* that the root is exact.
Norm(v) == ISqrt(SqNorm(v))

RECURSIVE SumNorms(_, _, _)
SumNorms(f, g, j) ==
    IF j > Len(f) THEN 0 ELSE Norm(Sub(g[j], f[j])) + SumNorms(f, g, j + 1)

\* Lines 55-56 and 59: motion_energy[i] > threshold, for the transition from
\* frame i to frame i + 1 (counted from 0) and threshold = th[1] / th[2]
\* metres: the mean over the joints of the displacement.
EnergyExceeds(d, i, thr) ==
    SumNorms(d[i + 1], d[i + 2], 1) * thr[2] > thr[1] * Len(d[i + 1]) * Units

\* The loop of line 58 started at transition 0.
RECURSIVE ScanBack_to0(_, _, _)
ScanBack_to0(d, thr, i) ==
    IF i < 0 THEN Len(d)
    ELSE IF EnergyExceeds(d, i, thr) THEN i + 2
    ELSE ScanBack_to0(d, thr, i - 1)

\* Lines 57-61: for i in range(total_frames - 2, 0, -1), from turn i on.
RECURSIVE ScanBack(_, _, _)
ScanBack(d, thr, i) ==
    IF i <= 0 THEN Len(d)
    ELSE IF EnergyExceeds(d, i, thr) THEN i + 2
    ELSE ScanBack(d, thr, i - 1)

MIN_FRAMES == 10

\* Line 62 without the lower clamp.
detect_active_frames_min(d, thr) == Min(ScanBack(d, thr, Len(d) - 2), Len(d))

\* Lines 53-62.
detect_active_frames(d, thr) ==
    LET total_frames == Len(d)
        real_end == ScanBack(d, thr, total_frames - 2)
    IN  Max(MIN_FRAMES, Min(real_end, total_frames))

\* Python's seq[:n] for n >= 0.
Slice(q, n) == SubSeq(q, 1, Min(n, Len(q)))

Origin == <<0, 0, 0>>
Still == <<Origin, Origin>>
Moved == <<<<8, 0, 0>>, Origin>>

\* The 100-frame trajectory that moves at every transition up to transition
\* 40 and rests from frame 41 on.
Scenario100 == [i \in 1..100 |-> IF i >= 42 \/ i % 2 = 0 THEN Moved ELSE Still]

\* threshold, as <<numerator, denominator>> of metres; 0.002 is
\* STOP_THRESHOLD (line 28).
Thresholds == {<<2, 1000>>, <<5, 100>>, <<-1, 1>>}

NotRun == -1

TrimInit ==
    /\ data \in SeqsUpTo({Still, Moved}, MaxFrames) \cup {Scenario100}
    /\ threshold \in Thresholds
    /\ active_len = NotRun
    /\ trimmed = <<>>
    /\ looped = <<>>

\* Line 119.
Detect ==
    /\ active_len = NotRun
    /\ active_len' = detect_active_frames(data, threshold)
    /\ UNCHANGED <<data, threshold, trimmed, looped>>
    /\ UNCHANGED <<serverVars, batchVars, imageVars, matchVars>>

\* Line 120.
Trim ==
    /\ active_len # NotRun
    /\ trimmed = <<>>
    /\ data # <<>>
    /\ trimmed' = Slice(data, active_len)
    /\ UNCHANGED <<data, threshold, active_len, looped>>
    /\ UNCHANGED <<serverVars, batchVars, imageVars, matchVars>>

InitTrim == TrimInit /\ ServerIdle /\ BatchIdle /\ ImageIdle /\ MatchIdle

NextTrim ==
    \/ Detect
    \/ Trim

\* detect_active_frames and the slice, over every trajectory of at most
\* MaxFrames frames.
SpecTrim == InitTrim /\ [][NextTrim]_vars

\* The transitions the loop of line 58 looks at.
Scanned == 1..(Len(data) - 2)

Active(i) == EnergyExceeds(data, i, threshold)

LastActive == CHOOSE i \in Scanned : Active(i) /\ \A j \in Scanned : Active(j) => j <= i

\* C7, as claimed: for a trajectory of any number of frames the length
\* returned is at least 10 and at most the number of frames.
C7_TrimBounds ==
    active_len # NotRun => active_len >= 10 /\ active_len <= Len(data)

\* C7, amended: for a trajectory of at least 10 frames the length returned
\* is at least 10 and at most the number of frames; for a shorter one it is
\* 10, more than the number of frames, and the slice keeps every frame.
C7_TrimBoundsAmended ==
    /\ (active_len # NotRun /\ Len(data) >= 10) =>
            active_len >= 10 /\ active_len <= Len(data)
    /\ (active_len # NotRun /\ Len(data) < 10) => active_len = 10
    /\ (trimmed # <<>> /\ Len(data) >= 10) => Len(trimmed) = active_len
    /\ (trimmed # <<>> /\ Len(data) < 10) => trimmed = data

\* A 12-frame trajectory has been cut to 10 frames.
C7_Witness ==
    /\ Len(data) = 12
    /\ active_len = 10
    /\ Len(trimmed) = 10

\* C8, as claimed: the length is the index of the last scanned transition
\* (transition 0 is not scanned) above the threshold, plus 2, clamped to
\* [10, number of frames]; the number of frames when there is none.
C8_TrimLength ==
    active_len # NotRun =>
        IF \E i \in Scanned : Active(i)
        THEN active_len = Max(10, Min(LastActive + 2, Len(data)))
        ELSE active_len = Len(data)

\* C8, amended: as claimed, but when no scanned transition is above the
\* threshold the length is the number of frames raised to at least 10.
C8_TrimLengthAmended ==
    /\ active_len # NotRun =>
          IF \E i \in Scanned : Active(i)
          THEN active_len = Max(10, Min(LastActive + 2, Len(data)))
          ELSE active_len = Max(10, Len(data))
    /\ (/\ active_len # NotRun
        /\ Len(data) = 100
        /\ Active(40)
        /\ \A i \in Scanned : i > 40 => ~Active(i)) => active_len = 42

\* The 100-frame trajectory at rest after transition 40 has been measured:
\* 42 frames.
C8_Witness ==
    /\ data = Scenario100
    /\ threshold = <<2, 1000>>
    /\ \A i \in Scanned : Active(i) <=> i <= 40
    /\ active_len = 42

(***************************************************************************)
(* npy_to_fbx.py: append_loop_frames                                       *)
(***************************************************************************)
MaxLoopInput == 3

LOOP_MIN_FRAMES == 15
LOOP_MAX_FRAMES == 60
FRAMES_PER_METRE == 40

RECURSIVE MaxSqDist(_, _, _)
MaxSqDist(f, g, j) ==
    IF j > Len(f) THEN 0 ELSE Max(SqNorm(Sub(f[j], g[j])), MaxSqDist(f, g, j + 1))

\* Line 79 with round() in place of int(): half a frame is added before the
\* fraction is dropped.
RawTransitionLen_round(d) ==
    LET sq == MaxSqDist(d[1], d[Len(d)], 1)
    IN  (ISqrt((4 * FRAMES_PER_METRE * FRAMES_PER_METRE * sq) \div (Units * Units)) + 1) \div 2

\* Lines 75-79: int(max_dist * 40), max_dist the root of the largest squared
\* distance; the integer part of a root is the integer root of the integer
\* part.
RawTransitionLen(d) ==
    LET sq == MaxSqDist(d[1], d[Len(d)], 1)
    IN  ISqrt((FRAMES_PER_METRE * FRAMES_PER_METRE * sq) \div (Units * Units))

\* Line 80.
TransitionLen(d) == Max(LOOP_MIN_FRAMES, Min(LOOP_MAX_FRAMES, RawTransitionLen(d)))

Scale(v, c) == <<v[1] * c, v[2] * c, v[3] * c>>
Add(a, b) == <<a[1] + b[1], a[2] + b[2], a[3] + b[3]>>

\* Lines 81-84: the k-th of n frames, t = k / n, smooth_t = t * t * (3 - 2t)
\* = w / n^3; the coordinates are kept as numerators over den = n^3.
LoopFrame(start_pose, end_pose, k, n) ==
    LET den == n * n * n
        w   == k * k * (3 * n - 2 * k)
    IN  [den |-> den,
         pose |-> [j \in 1..Len(start_pose) |->
                      Add(Scale(end_pose[j], den - w), Scale(start_pose[j], w))]]

\* Lines 74-85.
append_loop_frames(d) ==
    LET start_pose == d[1]
        end_pose == d[Len(d)]
        transition_len == TransitionLen(d)
    IN  [i \in 1..Len(d) |-> [den |-> 1, pose |-> d[i]]]
        \o [k \in 1..transition_len |-> LoopFrame(start_pose, end_pose, k, transition_len)]

\* The poses of the looping model: two joints.
LoopPoses ==
    {<<Origin, Origin>>,
     <<Origin, <<49, 0, 0>>>>,
     <<Origin, <<40, 30, 12>>>>,
     <<<<200, 0, 0>>, Origin>>,
     <<Origin, <<46, 0, 0>>>>,
     <<<<10, 10, 10>>, <<0, 150, 0>>>>}

LoopInit ==
    /\ data \in SeqsUpTo(LoopPoses, MaxLoopInput) \ {<<>>}
    /\ threshold = 0
    /\ active_len = 0
    /\ trimmed = <<>>
    /\ looped = <<>>

\* Line 123.
AppendLoop ==
    /\ looped = <<>>
    /\ looped' = append_loop_frames(data)
    /\ UNCHANGED <<data, threshold, active_len, trimmed>>
    /\ UNCHANGED <<serverVars, batchVars, imageVars, matchVars>>

InitLoop == LoopInit /\ ServerIdle /\ BatchIdle /\ ImageIdle /\ MatchIdle

NextLoop == AppendLoop

\* append_loop_frames over every trajectory of at most MaxLoopInput frames.
SpecLoop == InitLoop /\ [][NextLoop]_vars

Appended == Len(looped) - Len(data)

\* The largest squared distance between a joint of the first pose and the
\* same joint of the last one.
FarthestSq ==
    CHOOSE sq \in {SqNorm(Sub(data[1][j], data[Len(data)][j])) : j \in 1..Len(data[1])} :
        \A j \in 1..Len(data[1]) : SqNorm(Sub(data[1][j], data[Len(data)][j])) <= sq

\* n <= 40 * maxDist, maxDist in metres.
AtMost40Dist(n) == n * n * Units * Units <= 40 * 40 * FarthestSq

\* round(40 * maxDist) = n: n - 1/2 <= 40 * maxDist < n + 1/2.
IsRounded(n) ==
    /\ n = 0 \/ (2 * n - 1) * (2 * n - 1) * Units * Units <= 4 * 40 * 40 * FarthestSq
    /\ 4 * 40 * 40 * FarthestSq < (2 * n + 1) * (2 * n + 1) * Units * Units

\* int(40 * maxDist) = n: n <= 40 * maxDist < n + 1.
IsTruncated(n) == AtMost40Dist(n) /\ ~AtMost40Dist(n + 1)

\* C10, as claimed: the frames appended are round(maxDist * 40) clamped to
\* [15, 60], after the frames of the input.
C10_RoundedTransition ==
    looped # <<>> =>
        /\ \E n \in 0..200 : IsRounded(n) /\ Appended = Max(15, Min(60, n))
        /\ \A i \in 1..Len(data) : looped[i].pose = data[i] /\ looped[i].den = 1

\* C10, amended: the frames appended are int(maxDist * 40), the fraction
\* dropped, clamped to [15, 60], after the frames of the input; so the
\* output is longer than the input by 15 to 60 frames.
C10_TruncatedTransition ==
    looped # <<>> =>
        /\ \E n \in 0..200 : IsTruncated(n) /\ Appended = Max(15, Min(60, n))
        /\ \A i \in 1..Len(data) : looped[i].pose = data[i] /\ looped[i].den = 1
        /\ Appended >= 15 /\ Appended <= 60

\* 40 * maxDist = 19.6 has given 19 frames, where rounding gives 20.
C10_Witness ==
    /\ looped # <<>>
    /\ FarthestSq = 49 * 49
    /\ IsRounded(20)
    /\ Appended = 19

(***************************************************************************)
(* face_server.py: process_image on its own                                *)
(***************************************************************************)
MaxBuf == 30
MaxSide == 3

ImageInit ==
    /\ buf_len \in 0..MaxBuf
    /\ width \in 1..MaxSide
    /\ height \in 1..MaxSide
    /\ img = <<>>

\* Lines 84-119.
ProcessImage ==
    /\ img = <<>>
    /\ img' = process_image(buf_len, width, height)
    /\ UNCHANGED <<buf_len, width, height>>
    /\ UNCHANGED <<serverVars, batchVars, motionVars, matchVars>>

InitImage == ImageInit /\ ServerIdle /\ BatchIdle /\ MotionIdle /\ MatchIdle

NextImage == ProcessImage

\* process_image over every buffer of at most MaxBuf bytes.
SpecImage == InitImage /\ [][NextImage]_vars

\* C9: a buffer whose length is not width * height * 3 raises no error: it is
\* cut to the largest multiple of 3 * width, whole rows only, and the
\* remaining steps run.
C9_TruncationRecovers ==
    (img # <<>> /\ buf_len # width * height * 3) =>
        /\ img.err = None
        /\ img.used = (buf_len \div (3 * width)) * (3 * width)

(***************************************************************************)
(* face_server.py: find_match on its own, over a store loaded at start-up  *)
(***************************************************************************)
MaxStore == 3

\* The identifiers and the embeddings of the stored visitors; <<2, 0>> and
\* <<1, 0>> are equally similar to every query.
StoreIds == {"visitor_" \o ToString(i) : i \in 1..MaxStore}
StoreEmbs == {<<1, 0>>, <<0, 1>>, <<2, 0>>, <<-1, -1>>}

\* The dicts of at most MaxStore items: every order of distinct identifiers.
Stores ==
    {db \in SeqsUpTo(StoreIds \X StoreEmbs, MaxStore) :
        \A i, j \in 1..Len(db) : db[i][1] = db[j][1] => i = j}

\* The embeddings find_match is called with.
ProbeEmbs == {<<x, y>> : x \in -1..1, y \in -1..1} \ {<<0, 0>>}

MatchInit ==
    /\ face_db \in Stores
    /\ embedding \in ProbeEmbs
    /\ match = <<>>
    /\ file = <<>>
    /\ th = <<>>
    /\ served = 0
    /\ putIds = {}
    /\ lastPut = <<>>
    /\ durable = <<>>
    /\ restarted = <<>>

\* Line 179: vid, sim = find_match(face.embedding).
FindMatch ==
    /\ match = <<>>
    /\ match' = find_match(embedding, face_db)
    /\ UNCHANGED embedding
    /\ UNCHANGED <<serverVars, batchVars, motionVars, imageVars>>

InitMatch == MatchInit /\ BatchIdle /\ MotionIdle /\ ImageIdle

NextMatch == FindMatch

\* find_match over every store of at most MaxStore visitors.
SpecMatch == InitMatch /\ [][NextMatch]_vars

\* C5: find_match returns (None, 0.0) when the store is empty or holds no
\* embedding of similarity > 0.0 to the query; else the identifier of maximal
\* similarity with that similarity, the first one in the order of the store
\* among those of maximal similarity.
C5_FindMatch ==
    match # <<>> =>
        LET sim(i) == CosSim(embedding, face_db[i][2])
        IN  IF \A i \in 1..Len(face_db) : ~SimGT(sim(i), Zero)
            THEN match = [id |-> None, sim |-> Zero]
            ELSE \E i \in 1..Len(face_db) :
                    /\ match = [id |-> face_db[i][1], sim |-> sim(i)]
                    /\ \A j \in 1..Len(face_db) : ~SimGT(sim(j), sim(i))
                    /\ \A j \in 1..(i - 1) : SimGT(sim(i), sim(j))

\* Of three stored visitors the second and the third are equally and most
\* similar to the query: find_match has returned the second.
C5_Witness ==
    /\ Len(face_db) = 3
    /\ embedding = <<1, 0>>
    /\ face_db[1][2] = <<0, 1>> /\ face_db[2][2] = <<2, 0>> /\ face_db[3][2] = <<1, 0>>
    /\ match = [id |-> face_db[2][1], sim |-> CosSim(<<1, 0>>, <<2, 0>>)]

====
